---------------------------- MODULE Spec2Model ----------------------------
(***************************************************************************)
(* sound_label_info: the soundlabelinfo.sli binary codec (SliFile, Entry), *)
(* the process-wide label table (LABELS, set_labels) and the textual       *)
(* projection of tone_name (serde_hash40::serialize / deserialize).        *)
(*                                                                         *)
(* Numbers wider than TLC's integers are kept as sequences of 16-bit       *)
(* limbs, most significant limb first: a u32 is <<hi, lo>>, a u64 is       *)
(* <<l3, l2, l1, l0>>.  Bytes are 0..255.  Texts are sequences of          *)
(* one-character strings.                                                  *)
(***************************************************************************)
EXTENDS Integers, Sequences, FiniteSets, TLC

VARIABLES
    file,       \* the bytes of the input file given to SliFile::open
    pc,         \* where the caller of the codec stands
    res,        \* what SliFile::open returned
    sli,        \* the SliFile value the caller holds
    out,        \* the bytes SliFile::write produced
    LABELS,     \* serde_hash40::LABELS, the map behind the mutex
    last,       \* the last textual operation, its argument and its result
    loads,      \* contents of the successful loads, oldest first (last two)
    mutex,      \* the thread holding LABELS' mutex
    tpc,        \* per thread: position inside set_labels / serialize
    pending,    \* the loader's freshly collected map, not yet installed
    torn,       \* TRUE while the assignment to the map is under way
    seen,       \* per reader: what its last lookup observed
    installed   \* every complete map the registry has held

codecVars == <<file, pc, res, sli, out>>
textVars  == <<LABELS, last, loads>>
concVars  == <<mutex, tpc, pending, torn, seen, installed>>
vars      == <<file, pc, res, sli, out, LABELS, last, loads,
               mutex, tpc, pending, torn, seen, installed>>

-----------------------------------------------------------------------------
(* Bounds *)

\* the largest record count a generated input file declares or holds
MaxCount == 2
\* the largest number of entries a caller grows a table to
MaxEntries == 2

-----------------------------------------------------------------------------
(* Fixed-width little-endian integers *)

Limb == 256 * 256

\* le_bytes with the byte order reversed (a writer left at big-endian)
RECURSIVE be_bytes(_)
be_bytes(limbs) ==
    IF limbs = <<>> THEN <<>>
    ELSE <<Head(limbs) \div 256, Head(limbs) % 256>> \o be_bytes(Tail(limbs))

\* the bytes of a limb sequence, least significant byte first
RECURSIVE le_bytes(_)
le_bytes(limbs) ==
    IF limbs = <<>> THEN <<>>
    ELSE LET l == limbs[Len(limbs)]
         IN  <<l % 256, l \div 256>> \o le_bytes(SubSeq(limbs, 1, Len(limbs) - 1))

\* the limb sequence of an even number of little-endian bytes
RECURSIVE from_le_bytes(_)
from_le_bytes(bytes) ==
    IF bytes = <<>> THEN <<>>
    ELSE from_le_bytes(SubSeq(bytes, 3, Len(bytes))) \o <<bytes[2] * 256 + bytes[1]>>

\* usize -> u32 (`as u32`): the low 32 bits
as_u32(n) == <<(n \div Limb) % Limb, n % Limb>>

IsZero(limbs) == \A i \in 1..Len(limbs) : limbs[i] = 0

\* limbs - 1, for limbs that are not zero
RECURSIVE Dec(_)
Dec(limbs) ==
    LET n == Len(limbs)
    IN  IF limbs[n] > 0 THEN [limbs EXCEPT ![n] = @ - 1]
        ELSE Dec(SubSeq(limbs, 1, n - 1)) \o <<Limb - 1>>

-----------------------------------------------------------------------------
(* Decoding: #[derive_binread] SliFile, #[derive(BinRead)] Entry *)

Magic == <<83, 76, 73, 0>>

ErrEof == [ok |-> FALSE, err |-> [tag |-> "Io", kind |-> "UnexpectedEof"]]

\* read_exact of n bytes at cursor pos
read_exact(bytes, pos, n) ==
    IF pos + n <= Len(bytes)
    THEN [ok |-> TRUE, val |-> SubSeq(bytes, pos + 1, pos + n), pos |-> pos + n]
    ELSE ErrEof

\* a little-endian integer of n bytes at cursor pos
read_int(bytes, pos, n) ==
    LET r == read_exact(bytes, pos, n)
    IN  IF r.ok THEN [r EXCEPT !.val = from_le_bytes(r.val)] ELSE r

\* Entry: tone_name u64, nus3bank_id u32, tone_id u32, in that order
read_entry(bytes, pos) ==
    LET a == read_int(bytes, pos, 8)
    IN  IF ~a.ok THEN a ELSE
        LET b == read_int(bytes, a.pos, 4)
        IN  IF ~b.ok THEN b ELSE
            LET c == read_int(bytes, b.pos, 4)
            IN  IF ~c.ok THEN c ELSE
                [ok |-> TRUE, pos |-> c.pos,
                 val |-> [tone_name |-> a.val, nus3bank_id |-> b.val, tone_id |-> c.val]]

\* read_vec that keeps what it has read when the input ends early
RECURSIVE read_vec_lenient(_, _, _)
read_vec_lenient(bytes, pos, count) ==
    IF IsZero(count) THEN [ok |-> TRUE, val |-> <<>>, pos |-> pos]
    ELSE LET e == read_entry(bytes, pos)
         IN  IF ~e.ok THEN [ok |-> TRUE, val |-> <<>>, pos |-> pos] ELSE
             LET rest == read_vec_lenient(bytes, e.pos, Dec(count))
             IN  [rest EXCEPT !.val = <<e.val>> \o @]

\* Vec<Entry> with #[br(count = self_1)]: count entries, one after the other
RECURSIVE read_vec(_, _, _)
read_vec(bytes, pos, count) ==
    IF IsZero(count) THEN [ok |-> TRUE, val |-> <<>>, pos |-> pos]
    ELSE LET e == read_entry(bytes, pos)
         IN  IF ~e.ok THEN e ELSE
             LET rest == read_vec(bytes, e.pos, Dec(count))
             IN  IF ~rest.ok THEN rest
                 ELSE [rest EXCEPT !.val = <<e.val>> \o @]

\* read_magic that compares the three letters only
read_magic_letters(bytes, pos) ==
    LET m == read_exact(bytes, pos, 4)
    IN  IF ~m.ok THEN m
        ELSE IF SubSeq(m.val, 1, 3) = SubSeq(Magic, 1, 3) THEN m
        ELSE [ok |-> FALSE, err |-> [tag |-> "BadMagic", pos |-> pos, found |-> m.val]]

\* #[br(magic = b"SLI\x00")]: four bytes read, then compared
read_magic(bytes, pos) ==
    LET m == read_exact(bytes, pos, 4)
    IN  IF ~m.ok THEN m
        ELSE IF m.val = Magic THEN m
        ELSE [ok |-> FALSE, err |-> [tag |-> "BadMagic", pos |-> pos, found |-> m.val]]

\* SliFile::open / read_le: magic, version, the temporary count, the entries
read_le(bytes) ==
    LET m == read_magic(bytes, 0)
    IN  IF ~m.ok THEN m ELSE
        LET v == read_int(bytes, m.pos, 4)
        IN  IF ~v.ok THEN v ELSE
            LET n == read_int(bytes, v.pos, 4)
            IN  IF ~n.ok THEN n ELSE
                LET es == read_vec(bytes, n.pos, n.val)
                IN  IF ~es.ok THEN es
                    ELSE [ok |-> TRUE, val |-> [version |-> v.val, entries |-> es.val]]

-----------------------------------------------------------------------------
(* Encoding: impl BinWrite for SliFile, #[derive(BinWrite)] Entry *)

write_entry(e) ==
    le_bytes(e.tone_name) \o le_bytes(e.nus3bank_id) \o le_bytes(e.tone_id)

RECURSIVE write_entries(_)
write_entries(es) ==
    IF es = <<>> THEN <<>> ELSE write_entry(Head(es)) \o write_entries(Tail(es))

\* written_count that reuses the count read when the file was opened
written_count_decoded(s) ==
    IF res # [some |-> FALSE] /\ res.ok THEN as_u32(Len(res.val.entries))
    ELSE as_u32(Len(s.entries))

\* the count the encoder writes: self.1.len() as u32
written_count(s) == as_u32(Len(s.entries))

write_options(s) ==
    Magic \o le_bytes(s.version) \o le_bytes(written_count(s)) \o write_entries(s.entries)

-----------------------------------------------------------------------------
(* Inputs of the codec *)

U32Zero == <<0, 0>>

Versions == { <<0, 1>>, <<65535, 65534>> }

Entries ==
    { [tone_name |-> <<43690, 43690, 43690, 43690>>, nus3bank_id |-> <<0, 2>>,
       tone_id |-> <<0, 3>>],
      [tone_name |-> <<18, 13398, 30874, 48350>>, nus3bank_id |-> <<258, 772>>,
       tone_id |-> <<65535, 65535>>] }

ToneIds == { U32Zero }

RECURSIVE SeqsUpTo(_, _)
SeqsUpTo(S, n) ==
    IF n = 0 THEN { <<>> }
    ELSE LET shorter == SeqsUpTo(S, n - 1)
         IN  shorter \cup { <<x>> \o s : x \in S, s \in { t \in shorter : Len(t) = n - 1 } }

\* the inputs are written down byte by byte, not produced by the encoder

\* leading bytes of an input: the magic, and two near misses
Leads == { <<83, 76, 73, 0>>, <<83, 76, 73, 1>>, <<115, 76, 73, 0>> }

VersionBytes == { <<1, 0, 0, 0>>, <<254, 255, 255, 255>> }

\* declared counts: 0..MaxCount, and 0x01000000 (a byte-swapped 1)
CountBytes == { <<n, 0, 0, 0>> : n \in 0..MaxCount } \cup { <<0, 0, 0, 1>> }

RecordBytes ==
    { <<170, 170, 170, 170, 170, 170, 170, 170, 2, 0, 0, 0, 3, 0, 0, 0>>,
      <<222, 188, 154, 120, 86, 52, 18, 0, 4, 3, 2, 1, 255, 255, 255, 255>> }

RECURSIVE Concat(_)
Concat(ss) == IF ss = <<>> THEN <<>> ELSE Head(ss) \o Concat(Tail(ss))

Prefixes(bytes) == { SubSeq(bytes, 1, n) : n \in 0..Len(bytes) }

\* input files: a lead, a version, a declared count and some whole records,
\* cut at every length
Files ==
    UNION { Prefixes(lead \o v \o c \o Concat(rs)) :
               lead \in Leads, v \in VersionBytes, c \in CountBytes,
               rs \in SeqsUpTo(RecordBytes, MaxCount) }

None == [some |-> FALSE]

-----------------------------------------------------------------------------
(* The caller of the codec *)

InitCodec ==
    /\ file \in Files
    /\ pc = "start"
    /\ res = None
    /\ sli = None
    /\ out = None

\* SliFile::open(path)
Open ==
    /\ pc = "start"
    /\ res' = read_le(file)
    /\ IF res'.ok
       THEN /\ sli' = res'.val
            /\ pc' = "open"
       ELSE /\ sli' = sli
            /\ pc' = "failed"
    /\ UNCHANGED <<file, out, textVars, concVars>>

\* SliFile::new(version, entries), by a caller that has no input file
New ==
    /\ pc = "start"
    /\ file = <<>>
    /\ \E v \in Versions, es \in SeqsUpTo(Entries, MaxEntries) :
          sli' = [version |-> v, entries |-> es]
    /\ pc' = "open"
    /\ UNCHANGED <<file, res, out, textVars, concVars>>

\* entries_mut().push(entry)
Push ==
    /\ pc = "open"
    /\ Len(sli.entries) < MaxEntries
    /\ \E e \in Entries : sli' = [sli EXCEPT !.entries = Append(@, e)]
    /\ UNCHANGED <<file, pc, res, out, textVars, concVars>>

\* entries_mut().remove(i)
Remove ==
    /\ pc = "open"
    /\ \E i \in 1..Len(sli.entries) :
          sli' = [sli EXCEPT !.entries =
                     SubSeq(@, 1, i - 1) \o SubSeq(@, i + 1, Len(@))]
    /\ UNCHANGED <<file, pc, res, out, textVars, concVars>>

\* for entry in entries_mut() { entry.tone_id = 0 }, one entry at a time
SetToneId ==
    /\ pc = "open"
    /\ \E i \in 1..Len(sli.entries), t \in ToneIds :
          /\ sli.entries[i].tone_id # t
          /\ sli' = [sli EXCEPT !.entries[i].tone_id = t]
    /\ UNCHANGED <<file, pc, res, out, textVars, concVars>>

\* SliFile::write(&mut buffer)
Write ==
    /\ pc = "open"
    /\ out' = [some |-> TRUE, bytes |-> write_options(sli)]
    /\ pc' = "saved"
    /\ UNCHANGED <<file, res, sli, textVars, concVars>>

\* main's match on the result of SliFile::open
main_branch(r) ==
    IF r.ok THEN "to_yaml"
    ELSE IF r.err.tag = "BadMagic" THEN "from_yaml"
    ELSE "report"

NextCodec == Open \/ New \/ Push \/ Remove \/ SetToneId \/ Write

-----------------------------------------------------------------------------
(* Texts *)

\* the text of a TLA+ string literal cannot be indexed: texts are sequences of
\* one-character strings
LowerHex == <<"0", "1", "2", "3", "4", "5", "6", "7", "8", "9",
              "a", "b", "c", "d", "e", "f">>

UpperHex == <<"0", "1", "2", "3", "4", "5", "6", "7", "8", "9",
              "A", "B", "C", "D", "E", "F">>

Range(f) == { f[i] : i \in DOMAIN f }

IndexOf(seq, c) == CHOOSE i \in 1..Len(seq) : seq[i] = c

\* the UTF-8 byte of a character
CharCode(c) ==
    IF c \in Range(LowerHex)
    THEN LET i == IndexOf(LowerHex, c) IN IF i <= 10 THEN 47 + i ELSE 86 + i
    ELSE IF c \in Range(UpperHex) THEN 54 + IndexOf(UpperHex, c)
    ELSE CASE c = "x" -> 120 [] c = "X" -> 88  [] c = "g" -> 103 [] c = "t" -> 116
           [] c = "s" -> 115 [] c = "+" -> 43  [] c = "-" -> 45  [] c = " " -> 32
           [] c = "\r" -> 13 [] c = "\n" -> 10

White == {" ", "\r", "\n"}

\* str::trim: leading and trailing whitespace removed
RECURSIVE trim_start(_)
trim_start(s) ==
    IF s # <<>> /\ Head(s) \in White THEN trim_start(Tail(s)) ELSE s

RECURSIVE trim_end(_)
trim_end(s) ==
    IF s # <<>> /\ s[Len(s)] \in White THEN trim_end(SubSeq(s, 1, Len(s) - 1)) ELSE s

trim(s) == trim_end(trim_start(s))

\* str::starts_with
starts_with(s, p) == Len(s) >= Len(p) /\ SubSeq(s, 1, Len(p)) = p

\* str::trim_start_matches(pat): the pattern removed from the front as often as it matches
RECURSIVE trim_start_matches(_, _)
trim_start_matches(s, p) ==
    IF starts_with(s, p) THEN trim_start_matches(SubSeq(s, Len(p) + 1, Len(s)), p) ELSE s

\* str::split("\n"): the pieces between newlines; one piece more than there are newlines
RECURSIVE split_from(_, _)
split_from(s, cur) ==
    IF s = <<>> THEN <<cur>>
    ELSE IF Head(s) = "\n" THEN <<cur>> \o split_from(Tail(s), <<>>)
    ELSE split_from(Tail(s), Append(cur, Head(s)))

split(s) == split_from(s, <<>>)

-----------------------------------------------------------------------------
(* hash40::hash40: CRC-32 of the text's bytes in the low 32 bits, its length above *)

\* exclusive or of two bytes, bit by bit
Xor8(a, b) ==
      ((a + b) % 2)
    + 2 * (((a \div 2) + (b \div 2)) % 2)
    + 4 * (((a \div 4) + (b \div 4)) % 2)
    + 8 * (((a \div 8) + (b \div 8)) % 2)
    + 16 * (((a \div 16) + (b \div 16)) % 2)
    + 32 * (((a \div 32) + (b \div 32)) % 2)
    + 64 * (((a \div 64) + (b \div 64)) % 2)
    + 128 * (((a \div 128) + (b \div 128)) % 2)

Xor16(a, b) == 256 * Xor8(a \div 256, b \div 256) + Xor8(a % 256, b % 256)

\* 32-bit words are <<hi, lo>>
Xor32(x, y) == <<Xor16(x[1], y[1]), Xor16(x[2], y[2])>>

Shr1(x) == <<x[1] \div 2, (x[2] \div 2) + (x[1] % 2) * 32768>>

Shr8(x) == <<x[1] \div 256, (x[2] \div 256) + (x[1] % 256) * 256>>

\* the reflected CRC-32 polynomial 0xEDB88320
CrcPoly == <<60856, 33568>>

AllOnes == <<65535, 65535>>

RECURSIVE crc_round(_, _)
crc_round(crc, k) ==
    IF k = 0 THEN crc
    ELSE crc_round(IF crc[2] % 2 = 1 THEN Xor32(Shr1(crc), CrcPoly) ELSE Shr1(crc), k - 1)

\* the CRC-32 table entry of a byte
crc_table(b) == crc_round(<<0, b>>, 8)

\* one byte folded into the running CRC
crc_byte(crc, b) == Xor32(Shr8(crc), crc_table(Xor8(crc[2] % 256, b)))

\* the running CRC after the bytes of s, first byte first
RECURSIVE crc_update(_, _)
crc_update(crc, s) ==
    IF s = <<>> THEN crc
    ELSE LET prev == crc_update(crc, SubSeq(s, 1, Len(s) - 1))
         IN  CHOOSE r \in { crc_byte(c, CharCode(s[Len(s)])) : c \in {prev} } : TRUE

crc32(s) == Xor32(crc_update(AllOnes, s), AllOnes)

hash40(s) == <<0, Len(s)>> \o crc32(s)

-----------------------------------------------------------------------------
(* 64-bit hexadecimal: format!("{:#x}") and u64::from_str_radix(_, 16) *)

U64Zero == <<0, 0, 0, 0>>

\* x / 16
Div16(x) ==
    [i \in 1..Len(x) |->
        (x[i] \div 16) + (IF i > 1 THEN (x[i - 1] % 16) * 4096 ELSE 0)]

\* the digits of {:x}: the remainders of repeated division, last remainder first
RECURSIVE lower_hex(_)
lower_hex(x) ==
    LET d == LowerHex[(x[Len(x)] % 16) + 1]
        q == Div16(x)
    IN  IF IsZero(q) THEN <<d>> ELSE lower_hex(q) \o <<d>>

\* {:#x}
fmt_alt_lower_hex(x) == <<"0", "x">> \o lower_hex(x)

\* char::to_digit(16): -1 stands for None
to_digit(c) ==
    IF c \in Range(LowerHex) THEN IndexOf(LowerHex, c) - 1
    ELSE IF c \in Range(UpperHex) THEN IndexOf(UpperHex, c) - 1
    ELSE -1

\* checked x * 16 + d on a u64
mul16_add(x, d) ==
    LET v4 == x[4] * 16 + d
        v3 == x[3] * 16 + (v4 \div Limb)
        v2 == x[2] * 16 + (v3 \div Limb)
        v1 == x[1] * 16 + (v2 \div Limb)
    IN  IF v1 \div Limb > 0 THEN [ok |-> FALSE, kind |-> "PosOverflow"]
        ELSE [ok |-> TRUE, val |-> <<v1 % Limb, v2 % Limb, v3 % Limb, v4 % Limb>>]

\* the digit loop of from_str_radix, first digit first
RECURSIVE parse_digits(_)
parse_digits(s) ==
    IF s = <<>> THEN [ok |-> TRUE, val |-> U64Zero]
    ELSE LET prev == parse_digits(SubSeq(s, 1, Len(s) - 1))
             d    == to_digit(s[Len(s)])
         IN  CHOOSE r \in { IF ~p.ok THEN p
                            ELSE IF d < 0 THEN [ok |-> FALSE, kind |-> "InvalidDigit"]
                            ELSE mul16_add(p.val, d) : p \in {prev} } : TRUE

\* u64::from_str_radix(src, 16)
from_str_radix(src) ==
    IF src = <<>> THEN [ok |-> FALSE, kind |-> "Empty"]
    ELSE IF Len(src) = 1 /\ src[1] \in {"+", "-"}
         THEN [ok |-> FALSE, kind |-> "InvalidDigit"]
    ELSE IF src[1] = "+" THEN parse_digits(Tail(src))
    ELSE parse_digits(src)

-----------------------------------------------------------------------------
(* The label table and the textual projection of tone_name *)

EmptyMap == [k \in {} |-> <<>>]

\* HashMap::insert
insert(m, k, v) == [x \in DOMAIN m \cup {k} |-> IF x = k THEN v ELSE m[x]]

\* .map(|string| (hash40(string.trim()), string.to_owned())).collect()
RECURSIVE collect(_)
collect(lines) ==
    IF lines = <<>> THEN EmptyMap
    ELSE LET line == lines[Len(lines)]
         IN  insert(collect(SubSeq(lines, 1, Len(lines) - 1)), hash40(trim(line)), line)

ErrIo == [ok |-> FALSE, err |-> [tag |-> "Io", kind |-> "NotFound"]]

Ok == [ok |-> TRUE]

\* set_labels that adds to the table instead of replacing it
set_labels_extend(labels, src) ==
    IF ~src.readable THEN [labels |-> labels, ret |-> ErrIo]
    ELSE LET new == collect(split(src.contents))
         IN  [labels |-> [k \in DOMAIN labels \cup DOMAIN new |->
                             IF k \in DOMAIN new THEN new[k] ELSE labels[k]],
              ret |-> Ok]

\* set_labels that empties the table before it reads the source
set_labels_clear(labels, src) ==
    IF ~src.readable THEN [labels |-> EmptyMap, ret |-> ErrIo]
    ELSE [labels |-> collect(split(src.contents)), ret |-> Ok]

\* set_labels on the table `labels` and the source `src`: the table afterwards
\* and the value returned
set_labels(labels, src) ==
    IF ~src.readable THEN [labels |-> labels, ret |-> ErrIo]
    ELSE [labels |-> collect(split(src.contents)), ret |-> Ok]

\* serialize with {:x} in place of {:#x}
serialize_plain(labels, hash) ==
    IF hash \in DOMAIN labels THEN labels[hash] ELSE lower_hex(hash)

\* serde_hash40::serialize: the text emitted for tone_name
serialize(labels, hash) ==
    IF hash \in DOMAIN labels THEN labels[hash] ELSE fmt_alt_lower_hex(hash)

\* #[derive(Serialize)] Entry
Entry_serialize(labels, e) ==
    [tone_name |-> serialize(labels, e.tone_name),
     nus3bank_id |-> e.nus3bank_id,
     tone_id |-> e.tone_id]

\* deserialize without the hexadecimal branch
deserialize_rehash(s) == [ok |-> TRUE, val |-> hash40(s)]

\* serde_hash40::deserialize of the text s
deserialize(s) ==
    IF starts_with(s, <<"0", "x">>)
    THEN LET r == from_str_radix(trim_start_matches(s, <<"0", "x">>))
         IN  IF r.ok THEN [ok |-> TRUE, val |-> r.val]
             ELSE [ok |-> FALSE, err |-> [tag |-> "Custom", text |-> s]]
    ELSE [ok |-> TRUE, val |-> hash40(s)]

-----------------------------------------------------------------------------
(* Inputs of the label table and the textual projection *)

\* label lists: LF and CRLF line ends, a leading blank, a label that reads as
\* a hexadecimal literal, an empty file
Contents ==
    { <<>>,
      <<"a">>,
      <<"a", "\n", "f", "g">>,
      <<"a", "\r", "\n", "f", "g", "\r", "\n">>,
      <<"f", "g", "\n", " ", "a">>,
      <<"0", "x", "1", "f">> }

Sources == { [readable |-> FALSE] } \cup { [readable |-> TRUE, contents |-> c] : c \in Contents }

Ids ==
    { hash40(<<"a">>), hash40(<<"f", "g">>), hash40(<<"0", "x", "1", "f">>),
      U64Zero, <<0, 0, 0, 31>>, <<18, 13398, 30874, 48350>>,
      <<65535, 65535, 65535, 65535>> }

TextEntries ==
    { [tone_name |-> h, nus3bank_id |-> <<0, 2>>, tone_id |-> <<65535, 65535>>] : h \in Ids }

Repeat(c, n) == [i \in 1..n |-> c]

\* texts given to deserialize by hand
ParseTexts ==
    { <<>>, <<"a">>, <<"f", "g">>, <<"x", "0">>, <<"0", "X", "1", "f">>,
      <<"0", "x">>, <<"0", "x", "1", "f">>, <<"0", "x", "1", "F">>,
      <<"0", "x", "g">>, <<"0", "x", "-", "1">>, <<"0", "x", "+">>,
      <<"0", "x", "+", "1", "f">>, <<"0", "x", "0", "x", "1", "f">>,
      <<"0", "x", "0", "x">>,
      <<"0", "x">> \o Repeat("f", 16),
      <<"0", "x", "1">> \o Repeat("0", 16),
      <<"0", "x">> \o Repeat("0", 16) \o <<"1", "f">> }

-----------------------------------------------------------------------------
(* The caller of the label table and of the textual projection *)

InitText ==
    /\ LABELS = EmptyMap
    /\ last = [op |-> "none"]
    /\ loads = <<>>

\* sound_label_info::set_labels(path)
SetLabels ==
    /\ \E src \in Sources :
          LET r == set_labels(LABELS, src)
          IN  /\ LABELS' = r.labels
              /\ last' = [op |-> "set_labels", src |-> src, ret |-> r.ret]
              /\ loads' = IF r.ret.ok
                          THEN (IF loads = <<>> THEN <<>> ELSE <<loads[Len(loads)]>>)
                               \o <<src.contents>>
                          ELSE loads
    /\ UNCHANGED <<codecVars, concVars>>

\* rendering one entry (serde_yaml::to_string calls Entry's Serialize)
Serialize ==
    /\ \E e \in TextEntries :
          last' = [op |-> "serialize", entry |-> e, out |-> Entry_serialize(LABELS, e)]
    /\ UNCHANGED <<LABELS, loads, codecVars, concVars>>

\* parsing a tone_name written by hand
Deserialize ==
    /\ \E s \in ParseTexts :
          last' = [op |-> "deserialize", arg |-> s, ret |-> deserialize(s), of |-> None]
    /\ UNCHANGED <<LABELS, loads, codecVars, concVars>>

\* parsing the tone_name the last rendering emitted
DeserializeRendered ==
    /\ last.op = "serialize"
    /\ last' = [op |-> "deserialize", arg |-> last.out.tone_name,
                ret |-> deserialize(last.out.tone_name),
                of |-> [some |-> TRUE, hash |-> last.entry.tone_name,
                        labelled |-> last.entry.tone_name \in DOMAIN LABELS]]
    /\ UNCHANGED <<LABELS, loads, codecVars, concVars>>

NextText == SetLabels \/ Serialize \/ Deserialize \/ DeserializeRendered

-----------------------------------------------------------------------------
(* Threads on the label table: one thread in set_labels, the others rendering *)

\* the number of threads rendering entries
NumReaders == 2
\* the number of successful loads the loading thread makes
MaxLoads == 2

Loader == 0

Readers == 1..NumReaders

Threads == {Loader} \cup Readers

ConcSources ==
    { [readable |-> FALSE],
      [readable |-> TRUE, contents |-> <<"a">>],
      [readable |-> TRUE, contents |-> <<"a", "\r", "\n", "f", "g">>] }

ConcIds == { hash40(<<"a">>), hash40(<<"f", "g">>) }

\* a lock that never waits
lock_always(m) == TRUE

\* Mutex::lock returns once no thread holds the mutex
lock_ready(m) == m = None

Held(t) == [some |-> TRUE, holder |-> t]

InitConc ==
    /\ LABELS = EmptyMap
    /\ last = [op |-> "none"]
    /\ loads = <<>>
    /\ mutex = None
    /\ tpc = [t \in Threads |-> "idle"]
    /\ pending = None
    /\ torn = FALSE
    /\ seen = [r \in Readers |-> None]
    /\ installed = {EmptyMap}

\* set_labels, line 96-99: the source is read and the new map collected
LoadRead ==
    /\ tpc[Loader] = "idle"
    /\ Len(loads) < MaxLoads
    /\ \E src \in ConcSources :
          LET r == set_labels(LABELS, src)
          IN  IF r.ret.ok
              THEN /\ pending' = [some |-> TRUE, contents |-> src.contents,
                                  labels |-> r.labels]
                   /\ tpc' = [tpc EXCEPT ![Loader] = "lock"]
                   /\ last' = last
              ELSE /\ last' = [op |-> "set_labels", src |-> src, ret |-> r.ret]
                   /\ UNCHANGED <<pending, tpc>>
    /\ UNCHANGED <<LABELS, loads, mutex, torn, seen, installed, codecVars>>

\* set_labels, line 101: LABELS.lock()
LoadLock ==
    /\ tpc[Loader] = "lock"
    /\ lock_ready(mutex)
    /\ mutex' = Held(Loader)
    /\ tpc' = [tpc EXCEPT ![Loader] = "assign"]
    /\ UNCHANGED <<LABELS, last, loads, pending, torn, seen, installed, codecVars>>

\* set_labels, line 101: the assignment drops the old map ...
LoadAssignBegin ==
    /\ tpc[Loader] = "assign"
    /\ torn' = TRUE
    /\ tpc' = [tpc EXCEPT ![Loader] = "assigning"]
    /\ UNCHANGED <<LABELS, last, loads, mutex, pending, seen, installed, codecVars>>

\* ... and moves the new one in
LoadAssignEnd ==
    /\ tpc[Loader] = "assigning"
    /\ LABELS' = pending.labels
    /\ torn' = FALSE
    /\ installed' = installed \cup {pending.labels}
    /\ tpc' = [tpc EXCEPT ![Loader] = "unlock"]
    /\ UNCHANGED <<last, loads, mutex, pending, seen, codecVars>>

\* set_labels, line 101-103: the guard is dropped, Ok(()) returned
LoadUnlock ==
    /\ tpc[Loader] = "unlock"
    /\ mutex' = None
    /\ last' = [op |-> "set_labels",
                src |-> [readable |-> TRUE, contents |-> pending.contents], ret |-> Ok]
    /\ loads' = Append(loads, pending.contents)
    /\ pending' = None
    /\ tpc' = [tpc EXCEPT ![Loader] = "idle"]
    /\ UNCHANGED <<LABELS, torn, seen, installed, codecVars>>

\* serialize, line 141: LABELS.lock()
ReadLock(r) ==
    /\ tpc[r] = "idle"
    /\ lock_ready(mutex)
    /\ mutex' = Held(r)
    /\ tpc' = [tpc EXCEPT ![r] = "get"]
    /\ UNCHANGED <<LABELS, last, loads, pending, torn, seen, installed, codecVars>>

\* serialize, line 141-148: the lookup and the text emitted; a map read while
\* it is being assigned yields whatever the memory holds
ReadGet(r) ==
    /\ tpc[r] = "get"
    /\ \E h \in ConcIds :
          IF torn
          THEN \E m \in {LABELS, pending.labels, EmptyMap}, whole \in BOOLEAN :
                  seen' = [seen EXCEPT ![r] =
                              [some |-> TRUE, hash |-> h, text |-> serialize(m, h),
                               map |-> m, whole |-> whole]]
          ELSE seen' = [seen EXCEPT ![r] =
                           [some |-> TRUE, hash |-> h, text |-> serialize(LABELS, h),
                            map |-> LABELS, whole |-> TRUE]]
    /\ tpc' = [tpc EXCEPT ![r] = "unlock"]
    /\ UNCHANGED <<LABELS, last, loads, mutex, pending, torn, installed, codecVars>>

\* serialize, line 149: the guard is dropped
ReadUnlock(r) ==
    /\ tpc[r] = "unlock"
    /\ mutex' = None
    /\ tpc' = [tpc EXCEPT ![r] = "idle"]
    /\ UNCHANGED <<LABELS, last, loads, pending, torn, seen, installed, codecVars>>

NextConc ==
    \/ LoadRead \/ LoadLock \/ LoadAssignBegin \/ LoadAssignEnd \/ LoadUnlock
    \/ \E r \in Readers : ReadLock(r)
    \/ \E r \in Readers : ReadGet(r)
    \/ \E r \in Readers : ReadUnlock(r)

-----------------------------------------------------------------------------
(* Specifications *)

IdleCodec ==
    /\ file = <<>>
    /\ pc = "idle"
    /\ res = None
    /\ sli = None
    /\ out = None

IdleText ==
    /\ LABELS = EmptyMap
    /\ last = [op |-> "none"]
    /\ loads = <<>>

IdleConc ==
    /\ mutex = None
    /\ tpc = <<>>
    /\ pending = None
    /\ torn = FALSE
    /\ seen = <<>>
    /\ installed = {}

\* the codec and its caller
Init == InitCodec /\ IdleText /\ IdleConc

Next == NextCodec

Spec == Init /\ [][Next]_vars

\* the label table and the textual projection, one thread
InitT == IdleCodec /\ InitText /\ IdleConc

SpecText == InitT /\ [][NextText]_vars

\* the label table under several threads
InitC == IdleCodec /\ InitConc

SpecConc == InitC /\ [][NextConc]_vars

-----------------------------------------------------------------------------
(* The binary layout, read off the input bytes themselves *)

Opened == res # None

\* the input has the 12 header bytes and starts with "SLI\0"
HasHeader(bytes) == Len(bytes) >= 12 /\ SubSeq(bytes, 1, 4) = <<83, 76, 73, 0>>

\* the record count at offset 8 is at least 65536
CountIsHuge(bytes) == bytes[11] # 0 \/ bytes[12] # 0

\* the low half of the record count at offset 8
CountLow(bytes) == bytes[9] + 256 * bytes[10]

\* the length the header declares: 12 + 16 * count
DeclaredLen(bytes) == 12 + 16 * CountLow(bytes)

\* correct magic, a version, a count, and at least that many 16-byte records
HoldsDeclared(bytes) ==
    /\ HasHeader(bytes)
    /\ ~CountIsHuge(bytes)
    /\ Len(bytes) >= DeclaredLen(bytes)

\* the table was written as it was decoded
WroteDecoded == pc = "saved" /\ Opened /\ res.ok /\ sli = res.val

(* C1, as claimed: decoding any valid input (correct magic, a version, a      *)
(* declared count and at least that many records) and encoding the table      *)
(* unchanged gives back exactly the input bytes.                              *)
C1_RoundTripAtLeast ==
    (WroteDecoded /\ HoldsDeclared(file)) => out.bytes = file

(* C1, amended: a valid input decodes, and encoding the table unchanged gives *)
(* back exactly the first 12 + 16 * count bytes of the input: the input       *)
(* itself when it holds exactly the declared records, and the input without   *)
(* its trailing bytes otherwise.                                              *)
C1_RoundTripDeclared ==
    /\ (Opened /\ HoldsDeclared(file)) => res.ok
    /\ (WroteDecoded /\ HoldsDeclared(file)) =>
           /\ out.bytes = SubSeq(file, 1, DeclaredLen(file))
           /\ Len(file) = DeclaredLen(file) => out.bytes = file

\* C1: a file of exactly two declared records was opened and written back
C1_Witness ==
    /\ WroteDecoded
    /\ HoldsDeclared(file)
    /\ CountLow(file) = 2
    /\ Len(file) = DeclaredLen(file)
    /\ out.bytes = file

(* C2: decoding an input whose first four bytes are not "SLI\0" fails with    *)
(* BadMagic, carrying the bytes found, whatever follows them; no table is     *)
(* returned, and main takes its textual-input branch.                         *)
C2_BadMagic ==
    (Opened /\ Len(file) >= 4 /\ SubSeq(file, 1, 4) # <<83, 76, 73, 0>>) =>
        /\ ~res.ok
        /\ res.err.tag = "BadMagic"
        /\ res.err.found = SubSeq(file, 1, 4)
        /\ sli = None
        /\ main_branch(res) = "from_yaml"

\* C2: a whole two-record file with a wrong last magic byte was opened
C2_Witness ==
    /\ Opened
    /\ Len(file) = 44
    /\ SubSeq(file, 1, 4) = <<83, 76, 73, 1>>
    /\ ~res.ok
    /\ res.err.tag = "BadMagic"

(* C3: whatever was decoded, constructed or edited, the count written at      *)
(* offset 8 is the number of entries the table holds when it is written, and  *)
(* exactly that many 16-byte records follow it.                               *)
C3_CountField ==
    pc = "saved" =>
        /\ Len(out.bytes) = 12 + 16 * Len(sli.entries)
        /\ CountLow(out.bytes) = Len(sli.entries)
        /\ ~CountIsHuge(out.bytes)

\* C3: a two-record file was opened, one entry removed, the table written
C3_Witness ==
    /\ pc = "saved"
    /\ Opened
    /\ res.ok
    /\ Len(res.val.entries) = 2
    /\ Len(sli.entries) = 1
    /\ CountLow(file) = 2
    /\ CountLow(out.bytes) = 1

(* C8: an input that starts with the magic but is shorter than its header or  *)
(* than the records its count declares fails with an UnexpectedEof I/O error, *)
(* and no table is returned.                                                  *)
C8_Truncated ==
    (/\ Opened
     /\ Len(file) >= 4
     /\ SubSeq(file, 1, 4) = <<83, 76, 73, 0>>
     /\ \/ Len(file) < 12
        \/ CountIsHuge(file)
        \/ Len(file) < DeclaredLen(file)) =>
        /\ ~res.ok
        /\ res.err = [tag |-> "Io", kind |-> "UnexpectedEof"]
        /\ sli = None
        /\ main_branch(res) = "report"

\* C8: a file declaring two records was cut inside the second and opened
C8_Witness ==
    /\ Opened
    /\ HasHeader(file)
    /\ CountLow(file) = 2
    /\ Len(file) = 12 + 16 + 9
    /\ ~res.ok
    /\ res.err.kind = "UnexpectedEof"

-----------------------------------------------------------------------------
(* Hexadecimal literals, read off the text itself *)

IsHex(c) == c \in Range(LowerHex) \cup Range(UpperHex)

HexVal(c) == CHOOSE v \in 0..15 : LowerHex[v + 1] = c \/ UpperHex[v + 1] = c

RECURSIVE StripZeros(_)
StripZeros(ds) == IF ds # <<>> /\ Head(ds) = "0" THEN StripZeros(Tail(ds)) ELSE ds

\* the digits are hexadecimal digits, at least one, and their value fits 64 bits
WellFormedHex64(ds) ==
    /\ ds # <<>>
    /\ \A i \in 1..Len(ds) : IsHex(ds[i])
    /\ Len(StripZeros(ds)) <= 16

\* the 64-bit value of well-formed digits: four digits to the limb
HexValue(ds) ==
    LET sig == StripZeros(ds)
        p   == [i \in 1..(16 - Len(sig)) |-> "0"] \o sig
    IN  [l \in 1..4 |->
            4096 * HexVal(p[4 * l - 3]) + 256 * HexVal(p[4 * l - 2])
            + 16 * HexVal(p[4 * l - 1]) + HexVal(p[4 * l])]

\* the text is 0x followed by lower-case digits that spell the value
IsHexLiteralOf(text, hash) ==
    /\ Len(text) > 2
    /\ SubSeq(text, 1, 2) = <<"0", "x">>
    /\ LET ds == SubSeq(text, 3, Len(text))
       IN  /\ \A i \in 1..Len(ds) : ds[i] \in Range(LowerHex)
           /\ WellFormedHex64(ds)
           /\ HexValue(ds) = hash

\* the identifiers the lines of a label list are stored under
KeysOf(contents) == { hash40(trim(line)) : line \in Range(split(contents)) }

(* C4: after successful loads the table is that of the last load alone: an    *)
(* identifier resolves exactly when it is the hash of a trimmed line of the   *)
(* last source, it resolves to such a line, and nothing of an earlier source  *)
(* stays resolvable.                                                          *)
C4_ReplacedByLastLoad ==
    loads # <<>> =>
        LET b == loads[Len(loads)]
        IN  /\ DOMAIN LABELS = KeysOf(b)
            /\ \A h \in Ids \cup UNION { KeysOf(c) : c \in Contents } :
                   h \in DOMAIN LABELS <=> \E line \in Range(split(b)) :
                                              hash40(trim(line)) = h
            /\ \A h \in DOMAIN LABELS :
                   \E line \in Range(split(b)) :
                       hash40(trim(line)) = h /\ LABELS[h] = line

\* C4: a second load dropped a label of the first and brought a new one
C4_Witness ==
    /\ Len(loads) = 2
    /\ \E h \in KeysOf(loads[1]) : h \notin KeysOf(loads[2]) /\ h \notin DOMAIN LABELS
    /\ \E h \in KeysOf(loads[2]) : h \notin KeysOf(loads[1]) /\ h \in DOMAIN LABELS

(* C5: rendering an entry emits nus3bank_id and tone_id unchanged, and        *)
(* tone_name as the table's label when the identifier has one, and otherwise  *)
(* as 0x followed by the identifier's hexadecimal digits; it never fails.     *)
C5_Render ==
    last.op = "serialize" =>
        LET h == last.entry.tone_name
        IN  /\ last.out.nus3bank_id = last.entry.nus3bank_id
            /\ last.out.tone_id = last.entry.tone_id
            /\ h \in DOMAIN LABELS => last.out.tone_name = LABELS[h]
            /\ h \notin DOMAIN LABELS => IsHexLiteralOf(last.out.tone_name, h)

\* C5: with labels loaded, an identifier without a label was rendered
C5_Witness ==
    /\ last.op = "serialize"
    /\ LABELS # EmptyMap
    /\ last.entry.tone_name \notin DOMAIN LABELS
    /\ last.out.tone_name = <<"0", "x", "1", "2", "3", "4", "5", "6", "7", "8", "9",
                              "a", "b", "c", "d", "e">>

\* C5: an identifier was rendered as its label, stored with its carriage return
C5_WitnessLabel ==
    /\ last.op = "serialize"
    /\ last.entry.tone_name \in DOMAIN LABELS
    /\ last.out.tone_name = <<"f", "g", "\r">>

(* C6, as claimed: a text that starts with 0x parses to the value of the      *)
(* digits after that one prefix when they are well-formed hexadecimal for 64  *)
(* bits, and fails with the invalid-identifier error otherwise; any other     *)
(* text parses to its hash.                                                   *)
C6_ParseRule ==
    last.op = "deserialize" =>
        LET s == last.arg
        IN  IF Len(s) >= 2 /\ SubSeq(s, 1, 2) = <<"0", "x">>
            THEN LET ds == SubSeq(s, 3, Len(s))
                 IN  IF WellFormedHex64(ds)
                     THEN last.ret = [ok |-> TRUE, val |-> HexValue(ds)]
                     ELSE ~last.ret.ok /\ last.ret.err.tag = "Custom"
            ELSE last.ret = [ok |-> TRUE, val |-> hash40(s)]

(* C7: a load whose source cannot be read returns the I/O error and leaves    *)
(* the table as it was; a load whose source can be read returns Ok.           *)
C7_FailedLoadKeepsTable ==
    [][last'.op = "set_labels" =>
          IF last'.src.readable
          THEN last'.ret = [ok |-> TRUE]
          ELSE /\ ~last'.ret.ok
               /\ last'.ret.err.tag = "Io"
               /\ LABELS' = LABELS
               /\ \A h \in Ids : serialize(LABELS', h) = serialize(LABELS, h)]_vars

\* C7: a load failed after an earlier load had filled the table
C7_Witness ==
    /\ last.op = "set_labels"
    /\ ~last.src.readable
    /\ ~last.ret.ok
    /\ loads # <<>>
    /\ DOMAIN LABELS = KeysOf(<<"a", "\n", "f", "g">>)

\* the text parsed is the text the last rendering emitted
ParsedRendered == last.op = "deserialize" /\ last.of # None

(* C10, as claimed: whatever the table holds, parsing the text rendered for   *)
(* an identifier gives back that identifier, through a label and through the  *)
(* hexadecimal literal alike.                                                 *)
C10_RoundTripAlways ==
    ParsedRendered => last.ret = [ok |-> TRUE, val |-> last.of.hash]

(* C10, amended: parsing the rendered text gives back the identifier when the *)
(* text is the hexadecimal literal, and when it is a label that has no        *)
(* leading or trailing whitespace and does not start with 0x.                 *)
C10_RoundTripClean ==
    (/\ ParsedRendered
     /\ last.of.labelled =>
            /\ trim(last.arg) = last.arg
            /\ ~(Len(last.arg) >= 2 /\ SubSeq(last.arg, 1, 2) = <<"0", "x">>)) =>
        last.ret = [ok |-> TRUE, val |-> last.of.hash]

\* C10: with labels loaded, a hexadecimal literal was rendered and parsed back
C10_Witness ==
    /\ ParsedRendered
    /\ ~last.of.labelled
    /\ LABELS # EmptyMap
    /\ last.of.hash = <<65535, 65535, 65535, 65535>>
    /\ last.ret = [ok |-> TRUE, val |-> last.of.hash]

\* C10: a clean label was rendered and parsed back
C10_WitnessLabel ==
    /\ ParsedRendered
    /\ last.of.labelled
    /\ last.arg = <<"f", "g">>
    /\ last.ret = [ok |-> TRUE, val |-> last.of.hash]

-----------------------------------------------------------------------------
(* Threads *)

\* the threads between lock() and the drop of the guard
InCritical == { t \in Threads : tpc[t] \notin {"idle", "lock"} }

(* C9: with a load and lookups interleaved in any order, at most one thread   *)
(* is inside the mutex, the map is only ever assigned inside it, it does not  *)
(* change while a lookup holds the mutex, and every lookup sees one whole map *)
(* that the table held before or after a load.                                *)
C9_Atomic ==
    /\ Cardinality(InCritical) <= 1
    /\ \A t \in InCritical : mutex = Held(t)
    /\ torn => mutex = Held(Loader)
    /\ \A r \in Readers :
          tpc[r] = "unlock" => ~torn /\ seen[r].map = LABELS
    /\ \A r \in Readers :
          seen[r] # None =>
              /\ seen[r].whole
              /\ seen[r].map \in installed
              /\ seen[r].text = serialize(seen[r].map, seen[r].hash)

\* C9: one reader saw the empty table, a load went through, a second reader
\* holds the mutex on the new table while the next load waits for it
C9_Witness ==
    /\ tpc[Loader] = "lock"
    /\ Len(loads) = 1
    /\ \E r \in Readers :
          /\ tpc[r] = "unlock"
          /\ seen[r] # None
          /\ seen[r].map = LABELS
          /\ seen[r].text = <<"a">>
    /\ \E r \in Readers : tpc[r] = "idle" /\ seen[r] # None /\ seen[r].map = EmptyMap

=============================================================================
